---------------------------- MODULE Spec2Model ----------------------------
(***************************************************************************)
(* The nutrient resolution pipeline of macrosnoaut: the /api/parse handler *)
(* in its four versions kept in the repository, with the helpers each one  *)
(* calls.                                                                  *)
(*                                                                         *)
(*   "parse_js" : src/macro-monitor-openai-usda-noauth/pages/api/parse.js  *)
(*   "part_001" : src/unnamed/part_001                                     *)
(*   "part_002" : src/unnamed/part_002                                     *)
(*   "part_003" : src/unnamed/part_003, with src/unnamed/part_000 (usda)   *)
(*                and .../lib/normalize.js                                 *)
(*                                                                         *)
(* Numbers.  A JavaScript number is a record [k, n, d]: k = "num" is the   *)
(* rational n/d in lowest terms (d > 0), k = "nan" a non-finite number,    *)
(* k = "null" is null and k = "undef" is undefined or a missing field.     *)
(* Arithmetic is exact: the binary rounding error of IEEE doubles is not   *)
(* modelled.                                                               *)
(*                                                                         *)
(* Text.  The strings the code searches, trims or lowercases are sequences *)
(* of one-character strings.  A null or undefined string is the empty      *)
(* sequence: every use of such a field in the source goes through          *)
(* `x || ""`, normStr or an equivalent.                                    *)
(***************************************************************************)
EXTENDS Integers, Sequences, FiniteSets, TLC

VARIABLES
    variant,      \* which version of the handler serves the request
    env,          \* process.env: which API keys are set
    req,          \* the request: method, text present, customFoods
    pc,           \* the handler's position (which await it is suspended at)
    parsedItems,  \* the items the text-understanding step returned
    idx,          \* index of the item being resolved
    cur,          \* the candidate selected for that item
    outItems,     \* the handler's local outItems array
    calls,        \* outbound calls issued so far, with what came back
    response,     \* the HTTP response sent, or NoResponse
    fn,           \* the pure function application under test (function specs)
    ui            \* the state of the page (Home), in the page's specification

vars == <<variant, env, req, pc, parsedItems, idx, cur, outItems, calls, response, fn, ui>>

---------------------------------------------------------------------------
(* Numbers *)

RECURSIVE GCD(_, _)
GCD(a, b) == IF b = 0 THEN a ELSE GCD(b, a % b)

Abs(x) == IF x < 0 THEN -x ELSE x

\* The rational n/d (d # 0) in lowest terms, with a positive denominator.
Num(n, d) ==
    LET s == IF d < 0 THEN -1 ELSE 1
        g == GCD(Abs(n), Abs(d))
    IN  [k |-> "num", n |-> (s * n) \div g, d |-> (s * d) \div g]

N(n) == [k |-> "num", n |-> n, d |-> 1]
NaN == [k |-> "nan", n |-> 0, d |-> 1]
Null == [k |-> "null", n |-> 0, d |-> 1]
Undef == [k |-> "undef", n |-> 0, d |-> 1]
Zero == N(0)

IsNum(x) == x.k = "num"
\* x == null in JavaScript: true of null and of undefined.
IsNullish(x) == x.k \in {"null", "undef"}
\* Number(x): null converts to 0, undefined to NaN.
Number(x) == IF x.k = "null" THEN N(0) ELSE IF x.k = "undef" THEN NaN ELSE x
\* JavaScript truthiness of a number: 0, NaN, null and undefined are falsy.
Truthy(x) == x.k = "num" /\ x.n # 0

RMul(a, b) == Num(a.n * b.n, a.d * b.d)
RDiv(a, b) == Num(a.n * b.d, a.d * b.n)
RAdd(a, b) == Num(a.n * b.d + b.n * a.d, a.d * b.d)
RSub(a, b) == Num(a.n * b.d - b.n * a.d, a.d * b.d)
RLess(a, b) == a.n * b.d < b.n * a.d
RLeq(a, b) == a.n * b.d <= b.n * a.d
RMax(a, b) == IF RLess(a, b) THEN b ELSE a
RMin(a, b) == IF RLess(b, a) THEN b ELSE a

\* a * b = q * c + r with 0 <= r < c, for a, b >= 0 and c > 0, computed by
\* doubling so that no intermediate value exceeds 2 * c or the quotient.
RECURSIVE MulDivMod(_, _, _)
MulDivMod(a, b, c) ==
    IF a = 0 THEN <<0, 0>>
    ELSE LET h == MulDivMod(a \div 2, b, c)
             dq == IF h[2] >= c - h[2] THEN 2 * h[1] + 1 ELSE 2 * h[1]
             dr == IF h[2] >= c - h[2] THEN h[2] - (c - h[2]) ELSE 2 * h[2]
             bq == b \div c
             br == b % c
         IN  IF a % 2 = 0 THEN <<dq, dr>>
             ELSE IF dr >= c - br THEN <<dq + bq + 1, dr - (c - br)>>
                  ELSE <<dq + bq, dr + br>>

\* Math.round(x * y * scale): the nearest integer, a half rounding towards
\* +Infinity, of the exact product.
RoundProd(x, y, scale) ==
    LET g1 == GCD(Abs(x.n), y.d)
        g2 == GCD(Abs(y.n), x.d)
        xn == Abs(x.n) \div g1
        yn == Abs(y.n) \div g2
        den0 == (x.d \div g2) * (y.d \div g1)
        g3 == GCD(scale, den0)
        a == xn * (scale \div g3)
        c == den0 \div g3
        neg == (x.n < 0) # (y.n < 0)
        qr == MulDivMod(a, yn, c)
    IN  IF ~neg
        THEN IF qr[2] >= c - qr[2] THEN qr[1] + 1 ELSE qr[1]
        ELSE IF qr[2] > c - qr[2] THEN -(qr[1] + 1) ELSE -qr[1]

One == N(1)

---------------------------------------------------------------------------
(* Text *)

UpperChars == <<"A","B","C","D","E","F","G","H","I","J","K","L","M",
                "N","O","P","Q","R","S","T","U","V","W","X","Y","Z">>
LowerChars == <<"a","b","c","d","e","f","g","h","i","j","k","l","m",
                "n","o","p","q","r","s","t","u","v","w","x","y","z">>

LowerChar(ch) ==
    IF \E i \in 1..26 : UpperChars[i] = ch
    THEN LowerChars[CHOOSE i \in 1..26 : UpperChars[i] = ch]
    ELSE ch

\* String.prototype.toLowerCase
toLowerCase(s) == [i \in 1..Len(s) |-> LowerChar(s[i])]

\* String.prototype.trim
RECURSIVE trim(_)
trim(s) ==
    IF s = <<>> THEN s
    ELSE IF Head(s) = " " THEN trim(Tail(s))
    ELSE IF s[Len(s)] = " " THEN trim(SubSeq(s, 1, Len(s) - 1))
    ELSE s

\* String.prototype.includes
includes(s, t) ==
    \E i \in 0..(Len(s) - Len(t)) : SubSeq(s, i + 1, i + Len(t)) = t

---------------------------------------------------------------------------
(* Words the code compares text with *)

W_g == <<"g">>
W_gram == <<"g","r","a","m">>
W_grams == <<"g","r","a","m","s">>
W_kg == <<"k","g">>
W_kilogram == <<"k","i","l","o","g","r","a","m">>
W_kilograms == <<"k","i","l","o","g","r","a","m","s">>
W_oz == <<"o","z">>
W_ounce == <<"o","u","n","c","e">>
W_ounces == <<"o","u","n","c","e","s">>
W_lb == <<"l","b">>
W_pound == <<"p","o","u","n","d">>
W_pounds == <<"p","o","u","n","d","s">>
W_mg == <<"m","g">>
W_ml == <<"m","l">>
W_serving == <<"s","e","r","v","i","n","g">>
W_egg == <<"e","g","g">>
W_tbsp == <<"t","b","s","p">>
W_tablespoon == <<"t","a","b","l","e","s","p","o","o","n">>
W_tsp == <<"t","s","p">>
W_teaspoon == <<"t","e","a","s","p","o","o","n">>
W_cup == <<"c","u","p">>
W_spinach == <<"s","p","i","n","a","c","h">>
W_foundation == <<"f","o","u","n","d","a","t","i","o","n">>
W_sr == <<"s","r">>
W_survey == <<"s","u","r","v","e","y">>
W_branded == <<"b","r","a","n","d","e","d">>
W_Item == <<"I","t","e","m">>

---------------------------------------------------------------------------
(* parse.js: helpers *)

\* 28.349523125 = 45359237 / 1600000 and 453.59237 = 45359237 / 100000.
OZ_TO_G == Num(45359237, 1600000)
LB_TO_G == Num(45359237, 100000)

clampNumber(n, fallback) ==
    LET x == Number(n) IN IF IsNum(x) THEN x ELSE fallback

normStr(s) == trim(s)

unitToGrams(quantity, unit) ==
    LET q == clampNumber(quantity, Zero)
        u == toLowerCase(normStr(unit))
    IN  IF ~Truthy(q) THEN Zero
        ELSE IF u = W_g \/ u = W_gram \/ u = W_grams THEN q
        ELSE IF u = W_kg \/ u = W_kilogram \/ u = W_kilograms THEN RMul(q, N(1000))
        ELSE IF u = W_oz \/ u = W_ounce \/ u = W_ounces THEN RMul(q, OZ_TO_G)
        ELSE IF u = W_lb \/ u = W_pound \/ u = W_pounds THEN RMul(q, LB_TO_G)
        ELSE IF u = W_mg THEN RDiv(q, N(1000))
        ELSE Zero

\* round1(a * b) and round0(a * b): the source rounds a product each time
\* (base * factor, cf.x * mult), so the product and its rounding are one
\* operator here; round1(n) is round1of(n, One).
round1of(a, b) ==
    Num(RoundProd(clampNumber(a, Zero), clampNumber(b, Zero), 10), 10)

round0of(a, b) ==
    N(RoundProd(clampNumber(a, Zero), clampNumber(b, Zero), 1))

NutrientKeys ==
    {"calories", "protein", "fat", "carbs", "fiber", "sodium", "potassium", "magnesium"}

IntegerKeys == {"calories", "sodium", "potassium", "magnesium"}

emptyNutrients == [key \in NutrientKeys |-> Zero]

---------------------------------------------------------------------------
(* The lookup service's data: what FoodData Central answers.  A nutrient   *)
(* entry carries the three identifications the versions read: nutrient.id  *)
(* (parse.js), nutrient.name (part_001, part_002), nutrient.number         *)
(* (part_000).                                                             *)

FDC ==
    [calories  |-> [id |-> 1008, number |-> "208", name |-> "Energy", unitName |-> "KCAL"],
     protein   |-> [id |-> 1003, number |-> "203", name |-> "Protein", unitName |-> "G"],
     fat       |-> [id |-> 1004, number |-> "204", name |-> "Total lipid (fat)", unitName |-> "G"],
     carbs     |-> [id |-> 1005, number |-> "205", name |-> "Carbohydrate, by difference", unitName |-> "G"],
     fiber     |-> [id |-> 1079, number |-> "291", name |-> "Fiber, total dietary", unitName |-> "G"],
     sodium    |-> [id |-> 1093, number |-> "307", name |-> "Sodium, Na", unitName |-> "MG"],
     potassium |-> [id |-> 1092, number |-> "306", name |-> "Potassium, K", unitName |-> "MG"],
     magnesium |-> [id |-> 1090, number |-> "304", name |-> "Magnesium, Mg", unitName |-> "MG"]]

Entry(key, amount) ==
    [id |-> FDC[key].id, number |-> FDC[key].number, name |-> FDC[key].name,
     unitName |-> FDC[key].unitName, amount |-> amount]

\* A detail record's foodNutrients with the eight tracked nutrients, in the
\* order FoodData Central lists them.
Nutrients(cal, pro, fat, carb, fib, na, k, mg) ==
    <<Entry("protein", pro), Entry("fat", fat), Entry("carbs", carb),
      Entry("calories", cal), Entry("fiber", fib), Entry("magnesium", mg),
      Entry("potassium", k), Entry("sodium", na)>>

\* An entry that reports its amount in another unit.
EntryIn(key, amount, unitName) == [Entry(key, amount) EXCEPT !.unitName = unitName]

\* Energy in kilojoules: FoodData Central's nutrient 1062 (number 268),
\* which has the name of nutrient 1008.
EnergyKJ(amount) ==
    [id |-> 1062, number |-> "268", name |-> "Energy", unitName |-> "kJ", amount |-> amount]

Food(list, ss, ssUnit) ==
    [foodNutrients |-> list, servingSize |-> ss, servingSizeUnit |-> ssUnit]

\* What a body that is not a food object (null, {}, an error object) reads as.
NoFood == Food(<<>>, Undef, <<>>)

Candidate(id, dataType, n) ==
    [fdcId |-> id, dataType |-> dataType, nFoodNutrients |-> n]

T_Foundation == <<"F","o","u","n","d","a","t","i","o","n">>
T_SRLegacy == <<"S","R"," ","L","e","g","a","c","y">>
T_Branded == <<"B","r","a","n","d","e","d">>

Q_egg == <<"e","g","g">>
Q_butter == <<"b","u","t","t","e","r">>
Q_broth == <<"b","r","o","t","h">>
Q_yogurt == <<"Y","o","g","u","r","t">>
Q_steak == <<"s","t","e","a","k">>
Q_berries == <<"b","e","r","r","i","e","s">>
Q_rice == <<"r","i","c","e">>
Q_lmnt == <<"L","M","N","T">>
Q_oats == <<"o","a","t","s">>

\* foods/search: the hits for a query, in the service's ranking.
UsdaHits(query) ==
    LET q == toLowerCase(query)
    IN  IF includes(q, Q_egg) THEN <<Candidate(1, T_Foundation, 8)>>
        ELSE IF includes(q, Q_butter) THEN <<Candidate(2, T_SRLegacy, 8)>>
        ELSE IF includes(q, Q_broth) THEN <<Candidate(3, T_Branded, 0)>>
        ELSE IF includes(q, toLowerCase(Q_yogurt))
             THEN <<Candidate(4, T_Branded, 8), Candidate(5, T_SRLegacy, 8)>>
        ELSE IF includes(q, Q_steak) THEN <<Candidate(6, T_Foundation, 8)>>
        ELSE IF includes(q, Q_berries) THEN <<Candidate(7, T_SRLegacy, 8)>>
        ELSE IF includes(q, Q_rice) THEN <<Candidate(8, T_SRLegacy, 8)>>
        ELSE IF includes(q, Q_oats) THEN <<Candidate(9, T_Foundation, 8)>>
        ELSE <<>>

\* food/{fdcId}: the detail record of a food.
UsdaFood(fdcId) ==
    CASE fdcId = 1 -> Food(Nutrients(N(155), N(13), N(11), Num(11, 10), N(0),
                                     N(124), N(126), N(12)), Undef, <<>>)
      [] fdcId = 2 -> Food(Nutrients(N(717), Num(9, 10), N(81), Num(1, 10), N(0),
                                     N(11), N(24), N(2)), Undef, <<>>)
      [] fdcId = 3 -> Food(<<>>, N(240), <<"m","l">>)
      [] fdcId = 4 -> Food(Nutrients(N(53), Num(59, 10), N(0), Num(35, 10), N(0),
                                     N(38), N(141), N(11)), N(170), <<"g">>)
      [] fdcId = 5 -> Food(Nutrients(N(61), Num(35, 10), Num(33, 10), Num(47, 10), N(0),
                                     N(46), N(155), N(12)), Undef, <<>>)
      [] fdcId = 6 -> Food(Nutrients(N(271), N(25), N(19), N(0), N(0),
                                     N(58), N(318), N(22)), Undef, <<>>)
      [] fdcId = 7 -> Food(Nutrients(N(57), Num(7, 10), Num(3, 10), Num(145, 10), Num(24, 10),
                                     N(1), N(77), N(6)), N(148), <<"G","R","M">>)
      [] fdcId = 8 -> Food(Nutrients(N(130), Num(27, 10), Num(3, 10), Num(282, 10), Num(4, 10),
                                     N(1), N(35), N(12)), N(500), <<"m","g">>)
      [] fdcId = 9 -> Food(<<Entry("protein", Num(169, 10)), Entry("fat", Num(69, 10)),
                               Entry("carbs", Num(663, 10)), EnergyKJ(N(1628)),
                               Entry("fiber", Num(106, 10)), Entry("magnesium", N(177)),
                               Entry("potassium", N(429)),
                               EntryIn("sodium", Num(2, 1000), "G")>>, Undef, <<>>)
      [] OTHER -> NoFood

---------------------------------------------------------------------------
(* parse.js: extraction, custom foods *)

NUTRIENT_IDS == [key \in NutrientKeys |-> FDC[key].id]

RECURSIVE extractLoop(_, _, _)
extractLoop(list, i, out) ==
    IF i > Len(list) THEN out
    ELSE LET id == list[i].id
             amt == clampNumber(list[i].amount, Null)
         IN  IF IsNullish(amt) THEN extractLoop(list, i + 1, out)
             ELSE IF \E key \in NutrientKeys : NUTRIENT_IDS[key] = id
             THEN extractLoop(list, i + 1,
                    [out EXCEPT ![CHOOSE key \in NutrientKeys : NUTRIENT_IDS[key] = id] = amt])
             ELSE extractLoop(list, i + 1, out)

extractNutrientsFromFoodDetails(foodDetails) ==
    extractLoop(foodDetails.foodNutrients, 1, emptyNutrients)

RECURSIVE matchLoop(_, _, _)
matchLoop(n, foods, i) ==
    IF i > Len(foods) THEN 0
    ELSE LET cn == toLowerCase(normStr(foods[i].name))
         IN  IF cn = <<>> THEN matchLoop(n, foods, i + 1)
             ELSE IF includes(n, cn) \/ includes(cn, n) THEN i
             ELSE matchLoop(n, foods, i + 1)

\* The index in customFoods of the custom food matched, 0 for null.
matchCustomFood(itemName, customFoods) ==
    LET n == toLowerCase(normStr(itemName))
    IN  IF n = <<>> THEN 0 ELSE matchLoop(n, customFoods, 1)

---------------------------------------------------------------------------
(* part_001 and part_002: helpers.  num, round1, clamp, sumItems,          *)
(* pickBestFood and scale are the same text in both files.                 *)

num(x, d) == LET n == Number(x) IN IF IsNum(n) THEN n ELSE d

clamp(x, lo, hi) == RMax(lo, RMin(hi, num(x, Zero)))

RECURSIVE sumKey(_, _, _)
sumKey(items, i, key) ==
    IF i > Len(items) THEN Zero
    ELSE RAdd(num(items[i][key], Zero), sumKey(items, i + 1, key))

sumItems(items) == [key \in NutrientKeys |-> round1of(sumKey(items, 1, key), One)]

\* toLowerCase on the nutrient names and unit names of the lookup data.
lowerName(t) ==
    CASE t = "Energy" -> "energy"
      [] t = "Protein" -> "protein"
      [] t = "Total lipid (fat)" -> "total lipid (fat)"
      [] t = "Carbohydrate, by difference" -> "carbohydrate, by difference"
      [] t = "Fiber, total dietary" -> "fiber, total dietary"
      [] t = "Sodium, Na" -> "sodium, na"
      [] t = "Potassium, K" -> "potassium, k"
      [] t = "Magnesium, Mg" -> "magnesium, mg"
      [] t = "KCAL" -> "kcal"
      [] t = "kJ" -> "kj"
      [] t = "G" -> "g"
      [] t = "MG" -> "mg"
      [] OTHER -> t

NullCandidate == Candidate(-1, <<>>, 0)

score(f) ==
    LET dt == toLowerCase(f.dataType)
    IN  (IF includes(dt, W_foundation) THEN 6 ELSE 0)
      + (IF includes(dt, W_sr) THEN 5 ELSE 0)
      + (IF includes(dt, W_survey) THEN 4 ELSE 0)
      + (IF includes(dt, W_branded) THEN 2 ELSE 0)
      + (IF f.nFoodNutrients > 0 THEN 1 ELSE 0)

\* The insertion of a sort that puts an element before its equals.
RECURSIVE insertByScore_beforeEquals(_, _)
insertByScore_beforeEquals(sorted, f) ==
    IF sorted = <<>> THEN <<f>>
    ELSE IF score(f) - score(Head(sorted)) >= 0 THEN <<f>> \o sorted
    ELSE <<Head(sorted)>> \o insertByScore_beforeEquals(Tail(sorted), f)

\* Array.prototype.sort with the comparator score(b) - score(a): a stable
\* sort, each element inserted after the elements that do not score less.
RECURSIVE insertByScore(_, _)
insertByScore(sorted, f) ==
    IF sorted = <<>> THEN <<f>>
    ELSE IF score(f) - score(Head(sorted)) > 0 THEN <<f>> \o sorted
    ELSE <<Head(sorted)>> \o insertByScore(Tail(sorted), f)

RECURSIVE sortByScore(_, _)
sortByScore(foods, i) ==
    IF i = 0 THEN <<>>
    ELSE insertByScore(sortByScore(foods, i - 1), foods[i])

\* foods.slice().sort(...): the copy is sorted in place, foods is left alone.
sliceSort(foods) == [foods |-> foods, copy |-> sortByScore(foods, Len(foods))]

pickBestFood(foods) ==
    IF Len(foods) = 0 THEN NullCandidate
    ELSE sliceSort(foods).copy[1]

\* 4.184
KJ_PER_KCAL == Num(4184, 1000)

NoPer100 == [key \in NutrientKeys |-> Undef]

per100Step(out, x, energyUnits) ==
    LET name == lowerName(x.name)
        unit == lowerName(x.unitName)
        val == num(x.amount, Null)
        mg == IF unit = "mg" THEN val ELSE RMul(val, N(1000))
    IN  IF IsNullish(val) THEN out
        ELSE CASE name = "energy" /\ unit \in energyUnits ->
                    [out EXCEPT !.calories = IF unit = "kj" THEN RDiv(val, KJ_PER_KCAL) ELSE val]
               [] name = "protein" -> [out EXCEPT !.protein = val]
               [] name = "total lipid (fat)" -> [out EXCEPT !.fat = val]
               [] name = "carbohydrate, by difference" -> [out EXCEPT !.carbs = val]
               [] name = "fiber, total dietary" -> [out EXCEPT !.fiber = val]
               [] name = "sodium, na" -> [out EXCEPT !.sodium = mg]
               [] name = "potassium, k" -> [out EXCEPT !.potassium = mg]
               [] name = "magnesium, mg" -> [out EXCEPT !.magnesium = mg]
               [] OTHER -> out

RECURSIVE per100Loop(_, _, _, _)
per100Loop(n, i, out, energyUnits) ==
    IF i > Len(n) THEN out
    ELSE per100Loop(n, i + 1, per100Step(out, n[i], energyUnits), energyUnits)

AnyUnit == {"kcal", "kj", "g", "mg", ""}

\* part_001: every entry named "energy" is taken.
nutrientsPer100g_001(foodDetail) ==
    per100Loop(foodDetail.foodNutrients, 1, NoPer100, AnyUnit)

\* part_002: an entry named "energy" is taken when its unit is kcal or kJ.
nutrientsPer100g_002(foodDetail) ==
    per100Loop(foodDetail.foodNutrients, 1, NoPer100, {"kcal", "kj"})

\* x || 0
OrZero(x) == IF Truthy(x) THEN x ELSE Zero

scale(per100, grams) ==
    LET f == RDiv(grams, N(100))
    IN  [key \in NutrientKeys |-> round1of(OrZero(per100[key]), f)]

\* x || y on numbers
OrElse(x, y) == IF Truthy(x) THEN x ELSE y

\* part_001 estimateGrams
estimateGrams_001(item) ==
    LET q == toLowerCase(IF item.query # <<>> THEN item.query ELSE item.name)
        unit == toLowerCase(item.unit)
        c == OrElse(item.count, One)
    IN  IF includes(unit, W_egg) \/ includes(q, W_egg) THEN RMul(N(50), c)
        ELSE IF includes(unit, W_tbsp) \/ includes(unit, W_tablespoon)
                \/ includes(q, W_tablespoon) THEN RMul(N(15), c)
        ELSE IF includes(unit, W_cup) \/ includes(q, W_cup)
             THEN IF includes(q, W_spinach) THEN RMul(N(30), c) ELSE RMul(N(245), c)
        ELSE N(100)

\* part_002 estimateGrams
estimateGrams_002(item) ==
    LET q == toLowerCase(IF item.query # <<>> THEN item.query ELSE item.name)
        unit == toLowerCase(item.unit)
        c == OrElse(item.count, One)
    IN  IF includes(unit, W_egg) \/ includes(q, W_egg) THEN RMul(N(50), c)
        ELSE IF includes(unit, W_tbsp) \/ includes(q, W_tablespoon) THEN RMul(N(15), c)
        ELSE IF includes(unit, W_cup) \/ includes(q, W_cup)
             THEN IF includes(q, W_spinach) THEN RMul(N(30), c) ELSE RMul(N(245), c)
        ELSE N(100)

---------------------------------------------------------------------------
(* lib/normalize.js and part_000 (lib/usda.js), used by part_003 *)

toNumber(x) == LET n == Number(x) IN IF IsNum(n) THEN n ELSE Zero

\* lib/normalize.js estimateGrams({name, qty, unit}); Null for null.
estimateGrams_norm(item) ==
    LET q == OrElse(toNumber(item.count), One)
        u == toLowerCase(item.unit)
    IN  IF u \in {W_g, W_gram, W_grams} THEN q
        ELSE IF u \in {W_oz, W_ounce, W_ounces} THEN RMul(q, Num(283495, 10000))
        ELSE IF includes(toLowerCase(item.name), W_egg) THEN RMul(q, N(50))
        ELSE IF u \in {W_tbsp, W_tablespoon} THEN RMul(q, N(15))
        ELSE IF u \in {W_tsp, W_teaspoon} THEN RMul(q, N(5))
        ELSE Null

\* roundItem applied to per100[key] * f for each key (name kept apart).
roundItem(per100, f) ==
    [key \in NutrientKeys |->
        IF key \in IntegerKeys THEN round0of(toNumber(per100[key]), f)
        ELSE round1of(toNumber(per100[key]), f)]

\* usdaSearchFood: j?.foods?.[0]?.fdcId || null, 0 for null.
firstFdcId(foods) ==
    IF Len(foods) = 0 THEN 0 ELSE IF foods[1].fdcId > 0 THEN foods[1].fdcId ELSE 0

N_NUMBERS == [key \in NutrientKeys |-> FDC[key].number]

\* the Map number -> amount built by usdaGetFoodPer100: the last entry wins.
RECURSIVE mapGet(_, _, _)
mapGet(list, i, number) ==
    IF i = 0 THEN Undef
    ELSE IF list[i].number = number THEN list[i].amount
    ELSE mapGet(list, i - 1, number)

usdaGetFoodPer100_body(j) ==
    [key \in NutrientKeys |->
        OrZero(mapGet(j.foodNutrients, Len(j.foodNutrients), N_NUMBERS[key]))]

---------------------------------------------------------------------------
(* The text-understanding step: what the model returned, and what each     *)
(* version makes of it.  A parsed item is [name, query, grams, count,      *)
(* unit]; count is parse.js's quantity and part_003's qty, query is        *)
(* part_003's usdaQuery.                                                   *)

RawItem(name, query, grams, count, unit) ==
    [name |-> name, query |-> query, grams |-> grams, count |-> count, unit |-> unit]

slice(s, n) == SubSeq(s, 1, IF Len(s) < n THEN Len(s) ELSE n)

\* a || b || c on strings
FirstNonEmpty(a, b, c) == IF a # <<>> THEN a ELSE IF b # <<>> THEN b ELSE c

\* parse.js openaiParseTextToItems: the final map and filter
mapItem_js(it) ==
    [name |-> normStr(it.name),
     query |-> <<>>,
     grams |-> Undef,
     count |-> OrElse(clampNumber(it.count, One), One),
     unit |-> IF normStr(it.unit) = <<>> THEN W_serving ELSE normStr(it.unit)]

HasName(it) == it.name # <<>>
HasQuery(it) == it.query # <<>>

openaiParseTextToItems_items(items) ==
    SelectSeq([i \in 1..Len(items) |-> mapItem_js(items[i])], HasName)

\* part_001 openaiParse: Sanitize
sanitizeItem_001(it) ==
    [name |-> slice(FirstNonEmpty(it.name, it.query, W_Item), 120),
     query |-> slice(FirstNonEmpty(it.query, it.name, <<>>), 160),
     grams |-> IF IsNullish(it.grams) THEN Null ELSE clamp(it.grams, N(1), N(2000)),
     count |-> IF IsNullish(it.count) THEN Null ELSE clamp(it.count, Num(1, 4), N(50)),
     unit |-> slice(it.unit, 30)]

\* part_002 openaiParse: Sanitize (only null is kept as null)
sanitizeItem_002(it) ==
    [name |-> slice(FirstNonEmpty(it.name, it.query, W_Item), 120),
     query |-> slice(FirstNonEmpty(it.query, it.name, <<>>), 160),
     grams |-> IF it.grams.k = "null" THEN Null ELSE clamp(it.grams, N(1), N(2000)),
     count |-> IF it.count.k = "null" THEN Null ELSE clamp(it.count, Num(1, 4), N(50)),
     unit |-> slice(it.unit, 30)]

sanitize_001(items) ==
    SelectSeq([i \in 1..Len(slice(items, 12)) |-> sanitizeItem_001(items[i])], HasQuery)

sanitize_002(items) ==
    SelectSeq([i \in 1..Len(slice(items, 12)) |-> sanitizeItem_002(items[i])], HasQuery)

\* How the items reach the loop: "json" is the structured path of each
\* version, "text" is part_002's output_text fallback, which returns the
\* parsed object as it is.
parseItems(v, path, items) ==
    CASE v = "parse_js" -> openaiParseTextToItems_items(items)
      [] v = "part_001" -> sanitize_001(items)
      [] v = "part_002" -> IF path = "text" THEN items ELSE sanitize_002(items)
      [] OTHER -> items

---------------------------------------------------------------------------
(* Resolving one item *)

\* An element of outItems: the eight nutrient fields, the name, the tag the
\* version writes (parse.js: source; part_001, part_002: note; "" when the
\* version writes none) and, for the record only, the mass it scaled to.
OutItem(name, nutrients, tag, grams) ==
    nutrients @@ [name |-> name, tag |-> tag, grams |-> grams]

IsMassUnit_js(ssUnit) ==
    includes(ssUnit, W_g) \/ ssUnit = W_g \/ ssUnit = W_gram \/ ssUnit = W_grams

\* parse.js nutrientsForItemViaUsda, lines 299-312: the mass of the item
gramsFor_js(item, details) ==
    LET quantity == OrElse(clampNumber(item.count, One), One)
        unit == IF normStr(item.unit) = <<>> THEN W_serving ELSE normStr(item.unit)
        grams == unitToGrams(quantity, unit)
        ss == clampNumber(details.servingSize, Zero)
        ssUnit == toLowerCase(normStr(details.servingSizeUnit))
    IN  IF Truthy(grams) THEN grams
        ELSE IF Truthy(ss) /\ IsMassUnit_js(ssUnit) THEN RMul(quantity, ss)
        ELSE RMul(quantity, N(100))

\* parse.js nutrientsForItemViaUsda, lines 296-330: after the detail call
resolved_js(item, details) ==
    LET per100g == extractNutrientsFromFoodDetails(details)
        grams == gramsFor_js(item, details)
        factor == RDiv(grams, N(100))
    IN  OutItem(item.name,
                [key \in NutrientKeys |->
                    IF key \in IntegerKeys THEN round0of(per100g[key], factor)
                    ELSE round1of(per100g[key], factor)],
                "usda", grams)

\* The custom branch without the quantity multiplier.
customItem_js_once(it, cf) ==
    OutItem(cf.name,
            [key \in NutrientKeys |->
                IF key \in IntegerKeys THEN round0of(clampNumber(cf[key], Zero), One)
                ELSE round1of(clampNumber(cf[key], Zero), One)],
            "custom", Null)

\* parse.js handler, lines 374-388: the custom branch
customItem_js(it, cf) ==
    LET mult == OrElse(clampNumber(it.count, One), One)
    IN  OutItem(cf.name,
                [key \in NutrientKeys |->
                    IF key \in IntegerKeys THEN round0of(clampNumber(cf[key], Zero), mult)
                    ELSE round1of(clampNumber(cf[key], Zero), mult)],
                "custom", Null)

\* it.grams ?? estimateGrams(it)
gramsFor_001(it) == IF IsNullish(it.grams) THEN estimateGrams_001(it) ELSE it.grams
gramsFor_002(it) == IF IsNullish(it.grams) THEN estimateGrams_002(it) ELSE it.grams

\* part_001 handler, lines 333-342
resolved_001(it, detail) ==
    OutItem(it.name, scale(nutrientsPer100g_001(detail), gramsFor_001(it)), "", gramsFor_001(it))

\* part_002 handler, lines 272-281
resolved_002(it, detail) ==
    OutItem(it.name, scale(nutrientsPer100g_002(detail), gramsFor_002(it)), "", gramsFor_002(it))

\* part_003 handler, lines 35 and 39: p.grams ?? estimateGrams(p), then ?? 100
gramsFor_003(p) ==
    LET grams == IF IsNullish(p.grams) THEN estimateGrams_norm(p) ELSE p.grams
    IN  IF IsNullish(grams) THEN N(100) ELSE grams

\* part_003 handler, lines 38-42
resolved_003(p, j) ==
    LET g == gramsFor_003(p)
    IN  OutItem(p.name, roundItem(usdaGetFoodPer100_body(j), RDiv(g, N(100))), "", g)

\* The no-food item written with the tag of a resolved one.
unmatched_asMatched(v, it) ==
    OutItem(it.name, emptyNutrients, IF v = "parse_js" THEN "usda" ELSE "", Null)

\* The item pushed when the search gave no food.
unmatched(v, it) ==
    OutItem(it.name, emptyNutrients,
            CASE v = "parse_js" -> "usda:none"
              [] v \in {"part_001", "part_002"} -> "No USDA match"
              [] OTHER -> "",
            Null)

resolved(v, it, food) ==
    CASE v = "parse_js" -> resolved_js(it, food)
      [] v = "part_001" -> resolved_001(it, food)
      [] v = "part_002" -> resolved_002(it, food)
      [] OTHER -> resolved_003(it, food)

\* The text searched for: parse.js searches the name, part_001 and part_002
\* the query, part_003 usdaQuery || name.
searchText(v, it) ==
    CASE v = "parse_js" -> normStr(it.name)
      [] v \in {"part_001", "part_002"} -> it.query
      [] OTHER -> IF it.query # <<>> THEN it.query ELSE it.name

---------------------------------------------------------------------------
(* Requests *)

MaxBatch == 3

U_egg == <<"e","g","g">>
U_serving == <<"s","e","r","v","i","n","g">>
U_cup == <<"c","u","p">>
U_g == <<"g">>
U_oz == <<" ","O","z">>
Q_chobani == <<"C","h","o","b","a","n","i"," ","y","o","g","u","r","t">>

\* Items that may appear anywhere in a batch.
CoreItems ==
    {RawItem(Q_egg, Q_egg, Null, N(3), U_egg),
     RawItem(Q_butter, Q_butter, Null, N(2), U_serving),
     RawItem(Q_broth, Q_broth, Null, N(1), U_cup)}

\* Items tried alone.
SingleItems ==
    {RawItem(Q_berries, Q_berries, N(30), Null, U_g),
     RawItem(Q_steak, Q_steak, Null, N(2), U_oz),
     RawItem(Q_steak, Q_steak, N(100), N(2), U_oz),
     RawItem(Q_chobani, Q_chobani, Null, N(1), U_cup),
     RawItem(Q_chobani, Q_chobani, Null, N(2), <<>>),
     RawItem(Q_rice, Q_rice, Null, N(-2), U_g),
     RawItem(Q_rice, Q_rice, Null, N(2), U_serving),
     RawItem(Q_lmnt, Q_lmnt, Null, N(2), U_serving),
     RawItem(Q_oats, Q_oats, N(100), N(100), U_g),
     RawItem(<<>>, <<>>, Null, N(1), U_g)}

Batches ==
    {<<>>} \cup {<<it>> : it \in CoreItems \cup SingleItems}
           \cup UNION {[1..n -> CoreItems] : n \in 2..MaxBatch}

\* req.body.customFoods
LMNT ==
    [name |-> Q_lmnt, calories |-> N(10), protein |-> N(0), fat |-> N(0),
     carbs |-> N(2), fiber |-> N(0), sodium |-> N(1000), potassium |-> N(200),
     magnesium |-> N(60)]

Q_lmntCitrus == <<" ","L","M","N","T"," ","C","i","t","r","u","s"," ">>
Q_boneBroth == <<"B","o","n","e"," ","b","r","o","t","h">>
Q_brandChobani == <<"C","h","o","b","a","n","i">>

CustomFood(name, cal, pro, fat, carbs, fiber, na, k, mg) ==
    [name |-> name, calories |-> cal, protein |-> pro, fat |-> fat, carbs |-> carbs,
     fiber |-> fiber, sodium |-> na, potassium |-> k, magnesium |-> mg]

CustomFoodLists ==
    {<<>>, <<LMNT>>,
     <<CustomFood(Q_lmntCitrus, Num(21, 2), Num(1, 4), N(0), N(3), N(0), N(1000), N(200), N(60)),
       LMNT,
       CustomFood(Q_boneBroth, Num(81, 2), N(9), Num(1, 4), N(0), N(0), N(450), N(20), N(5)),
       CustomFood(Q_brandChobani, N(100), N(12), N(0), N(5), N(0), N(65), N(180), N(15))>>}

Variants == {"parse_js", "part_001", "part_002", "part_003"}

---------------------------------------------------------------------------
(* Responses of the two collaborators *)

SearchResponses(query) ==
    {[ok |-> FALSE, json |-> TRUE, foods |-> <<>>],
     [ok |-> FALSE, json |-> FALSE, foods |-> <<>>],
     [ok |-> TRUE, json |-> FALSE, foods |-> <<>>],
     [ok |-> TRUE, json |-> TRUE, foods |-> <<>>],
     [ok |-> TRUE, json |-> TRUE, foods |-> UsdaHits(query)]}

DetailResponses(fdcId) ==
    {[ok |-> FALSE, json |-> TRUE, food |-> NoFood],
     [ok |-> FALSE, json |-> FALSE, food |-> NoFood],
     [ok |-> TRUE, json |-> FALSE, food |-> NoFood],
     [ok |-> TRUE, json |-> TRUE, food |-> UsdaFood(fdcId)]}

\* "json": the structured answer; "text": an answer whose items are only in
\* output_text; "fail": a non-success status or an answer without items.
OpenaiPaths(v) == IF v = "part_002" THEN {"json", "text"} ELSE {"json"}

---------------------------------------------------------------------------
(* The handler *)

NoResponse == [status |-> 0, keys |-> {}, items |-> <<>>, totals |-> emptyNutrients]

Json(status, keys) ==
    [status |-> status, keys |-> keys, items |-> <<>>, totals |-> emptyNutrients]

\* A success answer that lists the items last resolved first.
Success_reversed(v, out) ==
    [status |-> 200, keys |-> {"items", "totals"},
     items |-> [i \in 1..Len(out) |-> out[Len(out) + 1 - i]], totals |-> sumItems(out)]

\* res.status(200).json({items}) / ({items, totals})
Success(v, out) ==
    IF v \in {"part_001", "part_002"}
    THEN [status |-> 200, keys |-> {"items", "totals"}, items |-> out, totals |-> sumItems(out)]
    ELSE [status |-> 200, keys |-> {"items"}, items |-> out, totals |-> emptyNutrients]

\* A catch block that also answers with an items key.
Thrown_withItems(v) == Json(500, {"error", "items"})

\* What a throw inside the handler ends in: the catch block's 500, or, in
\* part_003, which has no try, the framework's answer to a rejected handler.
Thrown(v) ==
    CASE v = "parse_js" -> Json(500, {"error"})
      [] v \in {"part_001", "part_002"} -> Json(500, {"error", "detail"})
      [] OTHER -> Json(500, {})

Call(kind, i, arg) == [kind |-> kind, item |-> i, arg |-> arg, res |-> "pending"]

Answered(log, res) == [log EXCEPT ![Len(log)].res = res]

Halt(out, log, resp) ==
    [pc |-> "done", idx |-> 0, cur |-> 0, outItems |-> out, calls |-> log, response |-> resp]

\* The loop with a cache: an item whose search text an earlier item of the
\* batch had takes that item's result, without a call.
RECURSIVE Loop_cached(_, _, _, _, _, _, _)
Loop_cached(v, e, customFoods, items, i, out, log) ==
    IF i > Len(items) THEN Halt(out, log, Success(v, out))
    ELSE IF v = "parse_js" /\ matchCustomFood(items[i].name, customFoods) # 0
    THEN Loop_cached(v, e, customFoods, items, i + 1,
              Append(out, customItem_js(items[i],
                        customFoods[matchCustomFood(items[i].name, customFoods)])),
              log)
    ELSE IF \E j \in 1..(i - 1) : searchText(v, items[j]) = searchText(v, items[i])
    THEN Loop_cached(v, e, customFoods, items, i + 1,
              Append(out, out[CHOOSE j \in 1..(i - 1) :
                                 searchText(v, items[j]) = searchText(v, items[i])]),
              log)
    ELSE IF v = "parse_js" /\ ~e.USDA_API_KEY THEN Halt(out, log, Thrown(v))
    ELSE [pc |-> "search", idx |-> i, cur |-> 0, outItems |-> out,
          calls |-> Append(log, Call("search", i, 0)), response |-> NoResponse]

\* The for loop from item i up to its next await, or to the response.
RECURSIVE Loop(_, _, _, _, _, _, _)
Loop(v, e, customFoods, items, i, out, log) ==
    IF i > Len(items) THEN Halt(out, log, Success(v, out))
    ELSE IF v = "parse_js" /\ matchCustomFood(items[i].name, customFoods) # 0
    THEN Loop(v, e, customFoods, items, i + 1,
              Append(out, customItem_js(items[i],
                        customFoods[matchCustomFood(items[i].name, customFoods)])),
              log)
    ELSE IF v = "parse_js" /\ ~e.USDA_API_KEY THEN Halt(out, log, Thrown(v))
    ELSE [pc |-> "search", idx |-> i, cur |-> 0, outItems |-> out,
          calls |-> Append(log, Call("search", i, 0)), response |-> NoResponse]

Goto(h) ==
    /\ pc' = h.pc
    /\ idx' = h.idx
    /\ cur' = h.cur
    /\ outItems' = h.outItems
    /\ calls' = h.calls
    /\ response' = h.response

\* No page is open.
NoPage == [mounted |-> FALSE]

Idle == [f |-> "none"]

Init ==
    /\ variant \in Variants
    /\ env \in [OPENAI_API_KEY : BOOLEAN, USDA_API_KEY : BOOLEAN]
    /\ req \in [method : {"POST", "GET"}, text : BOOLEAN, customFoods : CustomFoodLists]
    /\ variant # "parse_js" => req.customFoods = <<>>
    /\ pc = "start"
    /\ parsedItems = <<>>
    /\ idx = 0
    /\ cur = 0
    /\ outItems = <<>>
    /\ calls = <<>>
    /\ response = NoResponse
    /\ fn = Idle
    /\ ui = NoPage

\* From the request to the first outbound call.  part_003 builds its
\* OpenAI client when the module loads, which throws without a key.
HandlerStart ==
    /\ pc = "start"
    /\ LET v == variant
           askOpenai == [pc |-> "openai", idx |-> 0, cur |-> 0, outItems |-> <<>>,
                         calls |-> <<Call("openai", 0, 0)>>, response |-> NoResponse]
       IN  Goto(
             CASE v = "parse_js" ->
                    IF req.method # "POST" THEN Halt(<<>>, <<>>, Json(405, {"error"}))
                    ELSE IF ~req.text THEN Halt(<<>>, <<>>, Json(400, {"error"}))
                    ELSE IF ~env.OPENAI_API_KEY THEN Halt(<<>>, <<>>, Thrown(v))
                    ELSE askOpenai
               [] v \in {"part_001", "part_002"} ->
                    IF req.method # "POST"
                    THEN Halt(<<>>, <<>>, Json(405, IF v = "part_001"
                                                   THEN {"error", "gotMethod"} ELSE {"error"}))
                    ELSE IF ~env.USDA_API_KEY THEN Halt(<<>>, <<>>, Thrown(v))
                    ELSE IF ~req.text THEN Halt(<<>>, <<>>, Json(400, {"error"}))
                    ELSE IF ~env.OPENAI_API_KEY THEN Halt(<<>>, <<>>, Thrown(v))
                    ELSE askOpenai
               [] OTHER ->
                    IF ~env.OPENAI_API_KEY THEN Halt(<<>>, <<>>, Thrown(v))
                    ELSE IF req.method # "POST" THEN Halt(<<>>, <<>>, Json(405, {"error"}))
                    ELSE IF ~req.text THEN Halt(<<>>, <<>>, Json(400, {"error"}))
                    ELSE askOpenai)
    /\ UNCHANGED <<variant, env, req, parsedItems, fn, ui>>

\* The text-understanding call returns.  parse.js answers a failure of its
\* first call with a second one, to the Responses API.
OpenaiReturn ==
    /\ pc = "openai"
    /\ \E path \in OpenaiPaths(variant) \cup {"fail"}, batch \in Batches :
         LET items == IF path = "fail" THEN <<>> ELSE parseItems(variant, path, batch)
             log == Answered(calls, IF path = "fail" THEN "status" ELSE "ok")
         IN  /\ parsedItems' = items
             /\ Goto(IF path # "fail"
                      THEN Loop(variant, env, req.customFoods, items, 1, <<>>, log)
                      ELSE IF variant = "parse_js"
                      THEN [pc |-> "openai2", idx |-> 0, cur |-> 0, outItems |-> <<>>,
                            calls |-> Append(log, Call("openai", 0, 0)),
                            response |-> NoResponse]
                      ELSE Halt(<<>>, log, Thrown(variant)))
    /\ UNCHANGED <<variant, env, req, fn, ui>>

\* parse.js: the fallback call returns.
OpenaiFallbackReturn ==
    /\ pc = "openai2"
    /\ \E path \in {"json", "fail"}, batch \in Batches :
         LET items == IF path = "fail" THEN <<>> ELSE parseItems(variant, path, batch)
             log == Answered(calls, IF path = "fail" THEN "status" ELSE "ok")
         IN  /\ parsedItems' = items
             /\ Goto(IF path # "fail"
                      THEN Loop(variant, env, req.customFoods, items, 1, <<>>, log)
                      ELSE Halt(<<>>, log, Thrown(variant)))
    /\ UNCHANGED <<variant, env, req, fn, ui>>

ResultOf(r, empty) ==
    IF ~r.ok THEN "status" ELSE IF ~r.json THEN "garbage" ELSE IF empty THEN "empty" ELSE "ok"

\* The candidate the version takes from a search answer (fdcId <= 0: none).
\* parse.js and part_000 read foods[0]; part_001 and part_002 pick the best.
chosen(v, foods) ==
    CASE v \in {"parse_js", "part_003"} -> firstFdcId(foods)
      [] OTHER -> pickBestFood(foods).fdcId

\* Whether the version throws on an answer: parse.js, part_001 and part_002
\* on a non-success status (an unparseable body reads as null or {});
\* part_000 never looks at the status, and its r.json() rejects on an
\* unparseable body.
throws(v, r) == IF v = "part_003" THEN ~r.json ELSE ~r.ok

\* The search call of item idx returns.
SearchReturn ==
    /\ pc = "search"
    /\ \E r \in SearchResponses(searchText(variant, parsedItems[idx])) :
         LET it == parsedItems[idx]
             log == Answered(calls, ResultOf(r, r.foods = <<>>))
             id == chosen(variant, r.foods)
         IN  Goto(IF throws(variant, r) THEN Halt(outItems, log, Thrown(variant))
                  ELSE IF id <= 0
                  THEN Loop(variant, env, req.customFoods, parsedItems, idx + 1,
                            Append(outItems, unmatched(variant, it)), log)
                  ELSE [pc |-> "detail", idx |-> idx, cur |-> id, outItems |-> outItems,
                        calls |-> Append(log, Call("detail", idx, id)),
                        response |-> NoResponse])
    /\ UNCHANGED <<variant, env, req, parsedItems, fn, ui>>

\* The detail call of item idx returns.
DetailReturn ==
    /\ pc = "detail"
    /\ \E r \in DetailResponses(cur) :
         LET it == parsedItems[idx]
             log == Answered(calls, ResultOf(r, r.food.foodNutrients = <<>>))
         IN  Goto(IF throws(variant, r) THEN Halt(outItems, log, Thrown(variant))
                  ELSE Loop(variant, env, req.customFoods, parsedItems, idx + 1,
                            Append(outItems, resolved(variant, it, r.food)), log))
    /\ UNCHANGED <<variant, env, req, parsedItems, fn, ui>>

Next ==
    \/ HandlerStart
    \/ OpenaiReturn
    \/ OpenaiFallbackReturn
    \/ SearchReturn
    \/ DetailReturn

Spec == Init /\ [][Next]_vars

---------------------------------------------------------------------------
(* The pure helpers on their own: one application of one function to an    *)
(* input drawn from a bounded set.  fn = [f, item, out, done]; the handler *)
(* does not run.                                                           *)

U_tbsp == <<"t","b","s","p">>
U_tablespoon == <<"T","a","b","l","e","s","p","o","o","n">>
Q_tbspOil == <<"t","b","s","p"," ","o","i","l">>
Q_tablespoonOil == <<"t","a","b","l","e","s","p","o","o","n"," ","o","i","l">>
Q_cupOfSpinach == <<"c","u","p"," ","o","f"," ","s","p","i","n","a","c","h">>
Q_spinach == <<"S","p","i","n","a","c","h">>
Q_snack == <<"s","n","a","c","k">>
Q_Eggs == <<"E","g","g","s">>

UnitWords ==
    {W_g, W_gram, W_grams, W_kg, W_kilogram, W_kilograms, W_oz, W_ounce, W_ounces,
     W_lb, W_pound, W_pounds, W_mg, W_ml, W_cup, W_tbsp, W_serving, <<>>,
     U_oz, <<" ","G"," ">>, <<"G","r","a","m","s">>, <<"K","g">>, <<"L","B">>}

Quantities ==
    {NaN, Null, Undef, N(0), N(-2), Num(-1, 2), N(1), N(2), Num(1, 4), N(3), N(40)}

UnitInputs == {RawItem(<<>>, <<>>, Null, q, u) : q \in Quantities, u \in UnitWords}

EstimateInputs ==
    {RawItem(<<>>, q, Null, c, u) :
        q \in {Q_egg, Q_Eggs, Q_tbspOil, Q_tablespoonOil, Q_cupOfSpinach, Q_spinach,
               Q_snack, Q_butter},
        c \in {Null, N(1), N(3)},
        u \in {<<>>, U_egg, U_tbsp, U_tablespoon, U_cup, U_serving}}
    \cup
    {RawItem(n, <<>>, Null, N(2), u) :
        n \in {Q_egg, Q_tbspOil, Q_cupOfSpinach, Q_snack}, u \in {<<>>, U_cup}}

MaxFoods == 3

T_Survey == <<"S","u","r","v","e","y"," ","(","F","N","D","D","S",")">>

\* Search results of up to MaxFoods foods, each with its position as fdcId.
CandidateLists ==
    UNION {[1..n -> {T_Foundation, T_SRLegacy, T_Survey, T_Branded, <<>>} \X {0, 8}]
              : n \in 0..MaxFoods}

FoodsOf(l) == [i \in 1..Len(l) |-> Candidate(i, l[i][1], l[i][2])]

\* What the model may return for an item: grams and count null, missing,
\* not a number, or a number inside or outside the clamps.
SanitizeInputs ==
    {RawItem(q, q, g, c, u) :
        q \in {Q_egg, Q_snack, Q_cupOfSpinach},
        g \in {Null, Undef, NaN, N(0), N(150), N(5000)},
        c \in {Null, Undef, NaN, N(0), N(3), N(80)},
        u \in {<<>>, U_cup}}

Applied(f, item, out) == [f |-> f, item |-> item, out |-> out, done |-> TRUE]

FnInit ==
    /\ variant = "none"
    /\ env = [OPENAI_API_KEY |-> FALSE, USDA_API_KEY |-> FALSE]
    /\ req = [method |-> "none", text |-> FALSE, customFoods |-> <<>>]
    /\ pc = "idle"
    /\ parsedItems = <<>>
    /\ idx = 0
    /\ cur = 0
    /\ outItems = <<>>
    /\ calls = <<>>
    /\ response = NoResponse
    /\ ui = NoPage
    /\ \/ \E item \in UnitInputs :
             fn = [f |-> "unitToGrams", item |-> item, out |-> Null, done |-> FALSE]
       \/ \E item \in EstimateInputs, f \in {"estimateGrams_001", "estimateGrams_002"} :
             fn = [f |-> f, item |-> item, out |-> Null, done |-> FALSE]
       \/ \E l \in CandidateLists :
             fn = [f |-> "pickBestFood", item |-> FoodsOf(l), out |-> Null, done |-> FALSE]
       \/ \E item \in SanitizeInputs :
             fn = [f |-> "sanitize_001", item |-> item, out |-> Null, done |-> FALSE]

FnFrame ==
    UNCHANGED <<variant, env, req, pc, parsedItems, idx, cur, outItems, calls, response, ui>>

ApplyUnitToGrams ==
    /\ fn.f = "unitToGrams" /\ ~fn.done
    /\ fn' = Applied(fn.f, fn.item, unitToGrams(fn.item.count, fn.item.unit))
    /\ FnFrame

ApplyEstimateGrams_001 ==
    /\ fn.f = "estimateGrams_001" /\ ~fn.done
    /\ fn' = Applied(fn.f, fn.item, estimateGrams_001(fn.item))
    /\ FnFrame

ApplyEstimateGrams_002 ==
    /\ fn.f = "estimateGrams_002" /\ ~fn.done
    /\ fn' = Applied(fn.f, fn.item, estimateGrams_002(fn.item))
    /\ FnFrame

\* const best = pickBestFood(foods); fn.foods is the caller's array afterwards.
ApplyPickBestFood ==
    /\ fn.f = "pickBestFood" /\ ~fn.done
    /\ fn' = Applied(fn.f, fn.item, pickBestFood(fn.item)) @@ [foods |-> sliceSort(fn.item).foods]
    /\ FnFrame

\* part_001: one item through openaiParse's Sanitize, then the handler's
\* const grams = it.grams ?? estimateGrams(it).
ApplySanitize_001 ==
    /\ fn.f = "sanitize_001" /\ ~fn.done
    /\ fn' = Applied(fn.f, fn.item, sanitizeItem_001(fn.item))
                @@ [grams |-> gramsFor_001(sanitizeItem_001(fn.item))]
    /\ FnFrame

FnNext ==
    \/ ApplySanitize_001
    \/ ApplyPickBestFood
    \/ ApplyUnitToGrams
    \/ ApplyEstimateGrams_001
    \/ ApplyEstimateGrams_002

FnSpec == FnInit /\ [][FnNext]_vars

---------------------------------------------------------------------------
(* The page (part_004, Home).  ui holds the component's state: mounted,    *)
(* data (the selected day's items; selectedDate is never changed), stored  *)
(* (localStorage), input (non-empty or not), parsing, status, the number   *)
(* of parse requests started, the requests in flight, each with the        *)
(* dayItems its handleParse closed over,                                   *)
(* the last reading of the clock, and memo, the useMemo caches and the net *)
(* carbs shown as of the last render.                                      *)

MaxParses == 2
MaxNow == 2

Z == [key \in NutrientKeys |-> Zero]

r1(n) == round1of(n, One)

\* Net carbs as the plain difference.
netCarbs_signed(t) == RSub(OrZero(t.carbs), OrZero(t.fiber))

netCarbs(t) == RMax(Zero, RSub(OrZero(t.carbs), OrZero(t.fiber)))

RECURSIVE sumLoop(_, _, _)
sumLoop(items, i, a) ==
    IF i > Len(items) THEN a
    ELSE sumLoop(items, i + 1,
                 [k \in NutrientKeys |-> RAdd(a[k], OrZero(Number(items[i][k])))])

sum(items) == sumLoop(items, 1, Z)

\* warns without the condition on the number of items.
warns_anyDay(totals, length) ==
    LET nc == netCarbs(totals)
    IN  (IF RLess(totals.protein, N(145))
         THEN <<[kind |-> "protein", at |-> r1(totals.protein),
                 need |-> r1(RSub(N(145), totals.protein))]>>
         ELSE <<>>)
        \o (IF RLess(N(40), nc) THEN <<[kind |-> "above", at |-> r1(nc), need |-> Zero]>>
            ELSE <<>>)
        \o (IF RLess(Zero, nc) /\ RLess(nc, N(30))
            THEN <<[kind |-> "below", at |-> r1(nc), need |-> Zero]>>
            ELSE <<>>)

\* The messages of warns, each with the numbers it shows.
warns(totals, length) ==
    LET nc == netCarbs(totals)
    IN  (IF RLess(totals.protein, N(145)) /\ length > 2
         THEN <<[kind |-> "protein", at |-> r1(totals.protein),
                 need |-> r1(RSub(N(145), totals.protein))]>>
         ELSE <<>>)
        \o (IF RLess(N(40), nc) THEN <<[kind |-> "above", at |-> r1(nc), need |-> Zero]>>
            ELSE <<>>)
        \o (IF RLess(Zero, nc) /\ RLess(nc, N(30))
            THEN <<[kind |-> "below", at |-> r1(nc), need |-> Zero]>>
            ELSE <<>>)

\* The warn prop of the Net Carbs Metric.
warnNetCarbs(totals) ==
    RLess(netCarbs(totals), N(30)) \/ RLess(N(40), netCarbs(totals))

NoData == [set |-> FALSE, items |-> <<>>]

\* useMemo(() => data?.days?.[selectedDate]?.items || [], [data, selectedDate])
memoDayItems(memo, data) ==
    IF data = memo.data THEN memo.dayItems
    ELSE IF data.set THEN data.items ELSE <<>>

\* A totals cache that is keyed by the length of the list.
memoTotals_byLength(memo, dayItems) ==
    IF Len(dayItems) = memo.length THEN memo.totals ELSE sum(dayItems)

\* useMemo(() => sum(dayItems), [dayItems])
memoTotals(memo, dayItems) ==
    IF dayItems = memo.dayItems THEN memo.totals ELSE sum(dayItems)

\* useMemo(() => ..., [totals, dayItems.length])
memoWarns(memo, totals, length) ==
    IF totals = memo.totals /\ length = memo.length THEN memo.warns
    ELSE warns(totals, length)

FirstRender ==
    [data |-> NoData, dayItems |-> <<>>, totals |-> sum(<<>>), length |-> 0,
     warns |-> warns(sum(<<>>), 0), netCarbs |-> netCarbs(sum(<<>>)),
     warnNetCarbs |-> warnNetCarbs(sum(<<>>))]

\* A render of Home after a state change.
Render(u) ==
    LET dayItems == memoDayItems(u.memo, u.data)
        totals == memoTotals(u.memo, dayItems)
    IN  [u EXCEPT !.memo = [data |-> u.data, dayItems |-> dayItems, totals |-> totals,
                            length |-> Len(dayItems),
                            warns |-> memoWarns(u.memo, totals, Len(dayItems)),
                            netCarbs |-> netCarbs(totals),
                            warnNetCarbs |-> warnNetCarbs(totals)]]

\* The render and the effect that saves data once mounted.
Commit(u) ==
    LET r == Render(u)
    IN  IF r.mounted /\ r.data.set THEN [r EXCEPT !.stored = r.data.items] ELSE r

setDayItems(u, items) == [u EXCEPT !.data = [set |-> TRUE, items |-> items]]

Profile(cal, pro, fat, carbs, fiber, na, k, mg) ==
    [calories |-> cal, protein |-> pro, fat |-> fat, carbs |-> carbs, fiber |-> fiber,
     sodium |-> na, potassium |-> k, magnesium |-> mg]

DayItem(id, p) == p @@ [id |-> id]

P_meal == Profile(N(400), N(50), N(10), N(25), Num(5, 2), N(100), N(100), N(10))
P_none == Profile(N(0), N(0), N(0), N(0), N(0), N(0), N(0), N(0))
P_greens == Profile(N(200), N(45), N(2), N(0), N(10), N(20), N(300), N(50))
P_bran == Profile(N(300), N(150), N(5), N(20), N(25), N(5), N(5), N(5))
P_rice30 == Profile(N(130), N(10), N(0), N(30), N(0), N(1), N(1), N(1))
P_rice40 == Profile(N(170), N(10), N(0), N(40), N(0), N(1), N(1), N(1))
P_partial == Profile(N(100), NaN, N(1), N(35), Undef, N(1), N(1), N(1))
P_egg == Profile(N(233), Num(195, 10), Num(165, 10), Num(17, 10), N(0), N(186), N(189), N(18))

\* What localStorage may hold for the day when the page opens.
StoredDays ==
    {[i \in 1..Len(l) |-> DayItem(<<0, i>>, l[i])] :
        l \in {<<>>, <<P_meal, P_meal, P_none>>, <<P_meal, P_meal, P_greens>>,
               <<P_bran>>, <<P_rice30>>, <<P_rice40>>, <<P_partial>>}}

\* The items of a successful answer of /api/parse.
ResponseItems == {<<>>, <<P_egg>>, <<P_meal, P_none>>}

UiFrame ==
    UNCHANGED <<variant, env, req, pc, parsedItems, idx, cur, outItems, calls, response, fn>>

UiInit ==
    /\ variant = "page"
    /\ env = [OPENAI_API_KEY |-> FALSE, USDA_API_KEY |-> FALSE]
    /\ req = [method |-> "none", text |-> FALSE, customFoods |-> <<>>]
    /\ pc = "idle"
    /\ parsedItems = <<>>
    /\ idx = 0
    /\ cur = 0
    /\ outItems = <<>>
    /\ calls = <<>>
    /\ response = NoResponse
    /\ fn = Idle
    /\ \E s \in StoredDays :
          ui = [mounted |-> FALSE, data |-> NoData, stored |-> s, input |-> FALSE,
                parsing |-> FALSE, status |-> "none", started |-> 0, flights |-> <<>>,
                now |-> 1,
                memo |-> FirstRender]

\* The two effects after the first render: setMounted(true); setData(loadData()).
Mount ==
    /\ ~ui.mounted
    /\ ui' = Commit([ui EXCEPT !.mounted = TRUE, !.data = [set |-> TRUE, items |-> ui.stored]])
    /\ UiFrame

\* The user types into, or clears, the text area.
SetInput ==
    /\ ui.mounted
    /\ ui' = Commit([ui EXCEPT !.input = ~ui.input])
    /\ UiFrame

\* handleParse up to its await, from the Analyze button (disabled while
\* parsing) or from the Enter key of the text area.
HandleParse ==
    /\ ui.mounted
    /\ ui.input
    /\ ui.started < MaxParses
    /\ \E via \in {"click", "enter"} :
          /\ via = "click" => ~ui.parsing
          /\ ui' = Commit([ui EXCEPT !.status = "none", !.parsing = TRUE,
                                      !.started = @ + 1,
                                      !.flights = Append(@, [dayItems |-> ui.memo.dayItems])])
    /\ UiFrame

without(s, k) == [i \in 1..(Len(s) - 1) |-> IF i < k THEN s[i] ELSE s[i + 1]]

\* handleParse after its await, for an answer with res.ok and items; now is
\* what Date.now() reads, no earlier than its last reading.
ParseSucceeds ==
    \E k \in 1..Len(ui.flights), items \in ResponseItems, now \in ui.now..(ui.now + 1) :
        LET newItems == [i \in 1..Len(items) |-> DayItem(<<now, i - 1>>, items[i])]
            captured == ui.flights[k].dayItems
        IN  /\ now <= MaxNow
            /\ ui' = Commit([setDayItems(ui, captured \o newItems)
                                EXCEPT !.input = FALSE, !.status = "ok", !.parsing = FALSE,
                                       !.flights = without(@, k), !.now = now])
            /\ UiFrame

\* A catch block that also clears the text area.
ParseFails_clearsInput ==
    \E k \in 1..Len(ui.flights) :
        /\ ui' = Commit([ui EXCEPT !.status = "err", !.parsing = FALSE, !.input = FALSE,
                                    !.flights = without(@, k)])
        /\ UiFrame

\* handleParse after its await, for a failed fetch, a body that is not JSON
\* or an answer without res.ok.
ParseFails ==
    \E k \in 1..Len(ui.flights) :
        /\ ui' = Commit([ui EXCEPT !.status = "err", !.parsing = FALSE,
                                    !.flights = without(@, k)])
        /\ UiFrame

deleteItem(u, id) ==
    LET keep(it) == it.id # id
    IN  setDayItems(u, SelectSeq(u.memo.dayItems, keep))

DeleteItem ==
    \E i \in 1..Len(ui.memo.dayItems) :
        /\ ui' = Commit(deleteItem(ui, ui.memo.dayItems[i].id))
        /\ UiFrame

UiNext ==
    \/ Mount
    \/ SetInput
    \/ HandleParse
    \/ ParseSucceeds
    \/ ParseFails
    \/ DeleteItem

UiSpec == UiInit /\ [][UiNext]_vars

---------------------------------------------------------------------------
(* Properties.  A claim is stated of the versions its sources name.        *)

ZeroProfile(o) == \A key \in NutrientKeys : o[key] = Zero

\* The spec's sourceTag of an emitted item, read from what the version wrote.
SourceTag(o) ==
    CASE o.tag = "usda" -> "matched"
      [] o.tag \in {"usda:none", "No USDA match"} -> "unmatched"
      [] o.tag = "custom" -> "custom"
      [] OTHER -> "untagged"

IsLookup(c) == calls[c].kind \in {"search", "detail"}

\* Call c is a detail call that was answered with the food's record.
DetailRead(c) == calls[c].kind = "detail" /\ calls[c].res \in {"ok", "empty"}

QuantityOf(it) == IF Truthy(it.count) THEN it.count ELSE One

IsEggItem(it) ==
    /\ it.name = Q_egg
    /\ it.count = N(3)
    /\ it.unit = U_egg
    /\ IsNullish(it.grams)

EggResolved ==
    [calories |-> N(233), protein |-> Num(195, 10), fat |-> Num(165, 10),
     carbs |-> Num(17, 10), fiber |-> N(0), sodium |-> N(186), potassium |-> N(189),
     magnesium |-> N(18)]

C1_Versions == {"parse_js", "part_001"}

\* C1: the item {name egg, query egg, quantity 3, unit egg, no explicit
\* grams}, resolved against the detail record with per-100g values {155, 13,
\* 11, 1.1, 0, 124, 126, 12} and no serving size, has mass 150 g and the
\* profile {233, 19.5, 16.5, 1.7, 0, 186, 189, 18}.
C1_EggEndToEnd ==
    variant \in C1_Versions =>
        \A c \in 1..Len(calls) :
            (DetailRead(c) /\ calls[c].arg = 1 /\ IsEggItem(parsedItems[calls[c].item]))
            => LET o == outItems[calls[c].item]
               IN  /\ o.grams = N(150)
                   /\ \A key \in NutrientKeys : o[key] = EggResolved[key]

C2_Versions == {"parse_js", "part_001"}

\* C2: the response is either a success carrying one resolved item for every
\* parsed item, or a failure carrying only an error message; once a lookup
\* call has failed, no response carries the items resolved before it.
C2_BatchAtomic ==
    variant \in C2_Versions =>
        /\ pc # "done" => response = NoResponse
        /\ pc = "done" =>
              \/ /\ response.status = 200
                 /\ "items" \in response.keys
                 /\ response.items = outItems
                 /\ Len(response.items) = Len(parsedItems)
              \/ /\ response.status \in {400, 405, 500}
                 /\ "error" \in response.keys
                 /\ response.keys \subseteq {"error", "detail", "gotMethod"}
                 /\ response.items = <<>>
        /\ \A c \in 1..Len(calls) :
              (IsLookup(c) /\ calls[c].res = "status")
              => /\ pc = "done"
                 /\ response.status = 500
                 /\ response.items = <<>>

\* The call for the middle item of three fails after the first was resolved.
C2_MiddleItemFails ==
    /\ variant \in C2_Versions
    /\ pc = "done"
    /\ Len(parsedItems) = 3
    /\ Len(outItems) = 1
    /\ response.status = 500
    /\ calls[Len(calls)].item = 2
    /\ calls[Len(calls)].res = "status"

C3_Versions == {"parse_js", "part_001", "part_003"}

\* C3: a search or detail call answered with a non-success status ends the
\* batch in failure: it is the last call, the item is not emitted and no
\* later item is resolved.
C3_StatusFailsBatch ==
    variant \in C3_Versions =>
        \A c \in 1..Len(calls) :
            (IsLookup(c) /\ calls[c].res = "status")
            => /\ c = Len(calls)
               /\ pc = "done"
               /\ response.status # 200
               /\ Len(outItems) < calls[c].item

C4_Versions == {"parse_js", "part_001"}

\* C4: a search or detail call answered with a success status and an
\* unparseable payload fails the batch; the item is not emitted.
C4_GarbageFailsBatch ==
    variant \in C4_Versions =>
        \A c \in 1..Len(calls) :
            (IsLookup(c) /\ calls[c].res = "garbage")
            => /\ c = Len(calls)
               /\ pc = "done"
               /\ response.status # 200
               /\ Len(outItems) < calls[c].item

C5_Versions == {"parse_js", "part_001"}

\* C5: an item whose search returns no candidate is emitted with all eight
\* fields 0 and tagged unmatched, no detail call is made for it, the
\* following items are still resolved and the batch does not fail for it.
C5_NoCandidateUnmatched ==
    variant \in C5_Versions =>
        \A c \in 1..Len(calls) :
            (calls[c].kind = "search" /\ calls[c].res = "empty")
            => LET i == calls[c].item
               IN  /\ Len(outItems) >= i
                   /\ ZeroProfile(outItems[i])
                   /\ SourceTag(outItems[i]) = "unmatched"
                   /\ c < Len(calls) => calls[c + 1].item > i
                   /\ pc # "done" => idx > i
                   /\ pc = "done" =>
                         \/ /\ response.status = 200
                            /\ Len(response.items) = Len(parsedItems)
                         \/ /\ c < Len(calls)
                            /\ calls[Len(calls)].res = "status"

\* A batch of three succeeds with its first item unmatched and its second
\* resolved from a detail record.
C5_UnmatchedThenResolved ==
    /\ variant \in C5_Versions
    /\ pc = "done"
    /\ response.status = 200
    /\ Len(response.items) = 3
    /\ \E c \in 1..Len(calls) :
          calls[c].kind = "search" /\ calls[c].res = "empty" /\ calls[c].item = 1
    /\ ~ZeroProfile(response.items[2])

C6_Versions == {"parse_js", "part_001"}

\* C6: an item whose best candidate's detail record has no entry for any
\* tracked nutrient is emitted with all eight fields 0 and tagged unmatched,
\* never matched.
C6_NoNutrientDataUnmatched ==
    variant \in C6_Versions =>
        \A c \in 1..Len(calls) :
            (calls[c].kind = "detail" /\ calls[c].res = "empty")
            => LET o == outItems[calls[c].item]
               IN  /\ ZeroProfile(o)
                   /\ SourceTag(o) = "unmatched"

MassUnitWords ==
    {W_g, W_gram, W_grams, W_kg, W_kilogram, W_kilograms, W_oz, W_ounce, W_ounces,
     W_lb, W_pound, W_pounds, W_mg}

HasMassServing(food) ==
    /\ IsNum(food.servingSize)
    /\ food.servingSize.n > 0
    /\ toLowerCase(trim(food.servingSizeUnit)) \in MassUnitWords

\* The mass the precedence order of the spec gives an item, from the Unit
\* Converter's and the Mass Estimator's results for it.
ExpectedMass(it, food) ==
    LET q == QuantityOf(it)
        converted == unitToGrams(q, it.unit)
    IN  IF ~IsNullish(it.grams) THEN it.grams
        ELSE IF Truthy(converted) THEN converted
        ELSE IF HasMassServing(food)
             THEN RMul(q, unitToGrams(food.servingSize, food.servingSizeUnit))
        ELSE estimateGrams_001([it EXCEPT !.query = searchText(variant, it)])

C7_Versions == {"parse_js", "part_001", "part_003"}

\* C7: the mass of a resolved item is the first of: its explicit grams; the
\* Unit Converter's result when nonzero; quantity times the record's serving
\* size when that has a mass unit; the Mass Estimator's result.
C7_MassPrecedence ==
    variant \in C7_Versions =>
        \A c \in 1..Len(calls) :
            DetailRead(c)
            => outItems[calls[c].item].grams
                   = ExpectedMass(parsedItems[calls[c].item], UsdaFood(calls[c].arg))

C8_Factor(u) ==
    CASE u \in {W_g, W_gram, W_grams} -> One
      [] u \in {W_kg, W_kilogram, W_kilograms} -> N(1000)
      [] u \in {W_oz, W_ounce, W_ounces} -> Num(45359237, 1600000)
      [] u \in {W_lb, W_pound, W_pounds} -> Num(45359237, 100000)
      [] u = W_mg -> Num(1, 1000)
      [] OTHER -> Zero

C8_Expected(quantity, unit) ==
    IF ~IsNum(quantity) \/ quantity.n <= 0 THEN Zero
    ELSE RMul(quantity, C8_Factor(toLowerCase(trim(unit))))

\* C8: the Unit Converter returns 0 for an unrecognised unit or a quantity
\* that is zero, negative or not a number, and otherwise quantity times the
\* unit's factor; its result is never negative.
C8_UnitConverter ==
    (fn.done /\ fn.f = "unitToGrams")
    => /\ fn.out = C8_Expected(fn.item.count, fn.item.unit)
       /\ IsNum(fn.out)
       /\ fn.out.n >= 0

C9_Text(item) ==
    toLowerCase(item.unit \o <<" ">> \o FirstNonEmpty(item.query, item.name, <<>>))

C9_Expected(item) ==
    LET t == C9_Text(item)
        c == IF Truthy(item.count) THEN item.count ELSE One
    IN  IF includes(t, W_egg) THEN RMul(N(50), c)
        ELSE IF includes(t, W_tbsp) \/ includes(t, W_tablespoon) THEN RMul(N(15), c)
        ELSE IF includes(t, W_cup)
             THEN IF includes(t, W_spinach) THEN RMul(N(30), c) ELSE RMul(N(245), c)
        ELSE N(100)

\* C9: the Mass Estimator applies the first matching rule over the item's
\* unit text and name/query text taken together: egg 50 g x count, tbsp or
\* tablespoon 15 g x count, cup 30 g x count with spinach and 245 g x count
\* otherwise; the count is 1 when absent.
C9_EstimatorRules ==
    (fn.done /\ fn.f \in {"estimateGrams_001", "estimateGrams_002"})
    => fn.out = C9_Expected(fn.item)

NoEstimatorKeyword(it) ==
    LET t == toLowerCase(it.unit \o <<" ">> \o it.name \o <<" ">>
                         \o searchText(variant, it))
    IN  /\ ~includes(t, W_egg)
        /\ ~includes(t, W_tbsp)
        /\ ~includes(t, W_tablespoon)
        /\ ~includes(t, W_cup)

NoOtherMassSource(it, food) ==
    /\ IsNullish(it.grams)
    /\ ~Truthy(unitToGrams(QuantityOf(it), it.unit))
    /\ ~HasMassServing(food)

C10_Versions == {"parse_js", "part_001", "part_003"}

\* C10: an item that matches no estimator keyword and has no other mass
\* source (unit 'serving', say) is taken to be exactly 100 g, whatever its
\* count.
C10_FlatDefault ==
    variant \in C10_Versions =>
        \A c \in 1..Len(calls) :
            LET it == parsedItems[calls[c].item]
            IN  (DetailRead(c) /\ NoEstimatorKeyword(it)
                  /\ NoOtherMassSource(it, UsdaFood(calls[c].arg)))
                => outItems[calls[c].item].grams = N(100)

C11_Score(f) ==
    LET dt == toLowerCase(f.dataType)
        has(w) == \E i \in 1..Len(dt) :
                      i + Len(w) - 1 <= Len(dt) /\ SubSeq(dt, i, i + Len(w) - 1) = w
    IN  (IF has(<<"f","o","u","n","d","a","t","i","o","n">>) THEN 6 ELSE 0)
      + (IF has(<<"s","r">>) THEN 5 ELSE 0)
      + (IF has(<<"s","u","r","v","e","y">>) THEN 4 ELSE 0)
      + (IF has(<<"b","r","a","n","d","e","d">>) THEN 2 ELSE 0)
      + (IF f.nFoodNutrients > 0 THEN 1 ELSE 0)

\* C11: pickBest returns null for an empty list; otherwise it returns a
\* candidate of maximal score, the first such in input order, and leaves the
\* input list in its order.
C11_PickBest ==
    (fn.done /\ fn.f = "pickBestFood")
    => LET foods == fn.item
       IN  /\ foods = <<>> => fn.out = NullCandidate
           /\ foods # <<>> =>
                 \E i \in 1..Len(foods) :
                     /\ fn.out = foods[i]
                     /\ \A j \in 1..Len(foods) : C11_Score(foods[j]) <= C11_Score(foods[i])
                     /\ \A j \in 1..(i - 1) : C11_Score(foods[j]) < C11_Score(foods[i])
           /\ fn.foods = foods

\* Branded, foundation, sr in that order: the foundation one is picked; and
\* of two equal candidates after a lesser one, the earlier.
C11_FoundationPicked ==
    /\ fn.done /\ fn.f = "pickBestFood"
    /\ Len(fn.item) = 3
    /\ fn.item[1].dataType = T_Branded
    /\ fn.item[2].dataType = T_Foundation
    /\ fn.item[3].dataType = T_Foundation
    /\ fn.item[2].nFoodNutrients = fn.item[3].nFoodNutrients
    /\ fn.out = fn.item[2]

C12_Versions == {"parse_js", "part_001"}

C12_Per100(food) ==
    IF variant = "parse_js" THEN extractNutrientsFromFoodDetails(food)
    ELSE [key \in NutrientKeys |-> OrZero(nutrientsPer100g_001(food)[key])]

C12_Rounded(key, x, grams) ==
    IF key \in {"calories", "sodium", "potassium", "magnesium"}
    THEN N(RoundProd(x, RDiv(grams, N(100)), 1))
    ELSE Num(RoundProd(x, RDiv(grams, N(100)), 10), 10)

\* C12: an item scaled from a per-100g profile to a non-negative mass has
\* calories, sodium, potassium and magnesium equal to per100 x grams / 100
\* rounded to the nearest integer, and protein, fat, carbs and fiber rounded
\* to one decimal place.
C12_ScaledRounding ==
    variant \in C12_Versions =>
        \A c \in 1..Len(calls) :
            (calls[c].kind = "detail" /\ calls[c].res = "ok")
            => LET o == outItems[calls[c].item]
                   per100 == C12_Per100(UsdaFood(calls[c].arg))
               IN  (IsNum(o.grams) /\ o.grams.n >= 0)
                   => \A key \in NutrientKeys :
                          o[key] = C12_Rounded(key, per100[key], o.grams)

C13_Versions == {"part_001"}

\* The unrounded scaled value of field key of item i: per100 x grams / 100
\* when a detail record was read for the item, 0 when it is unmatched.
C13_Raw(i, key) ==
    IF \E c \in 1..Len(calls) : DetailRead(c) /\ calls[c].item = i
    THEN LET c == CHOOSE c \in 1..Len(calls) : DetailRead(c) /\ calls[c].item = i
         IN  RMul(C12_Per100(UsdaFood(calls[c].arg))[key], RDiv(outItems[i].grams, N(100)))
    ELSE Zero

RECURSIVE C13_SumRaw(_, _)
C13_SumRaw(n, key) ==
    IF n = 0 THEN Zero ELSE RAdd(C13_SumRaw(n - 1, key), C13_Raw(n, key))

\* C13: the totals of a successful batch are, field by field, the sum of the
\* items' unrounded scaled values rounded once with the field's precision,
\* never a sum of values that were already rounded.
C13_SumRawRoundOnce ==
    (variant \in C13_Versions /\ pc = "done" /\ response.status = 200)
    => \A key \in NutrientKeys :
           response.totals[key]
               = C12_Rounded(key, C13_SumRaw(Len(outItems), key), N(100))

RECURSIVE C14_FieldSum(_, _)
C14_FieldSum(items, key) ==
    IF items = <<>> THEN Zero
    ELSE LET x == Head(items)[key]
         IN  RAdd(IF IsNum(x) THEN x ELSE Zero, C14_FieldSum(Tail(items), key))

\* C14: after any additions and deletions, the totals shown are, for each
\* of the eight fields, the sum of that field over the items now in the
\* day's list, and the list shown is the current list.
C14_TotalsAreSums ==
    ui.mounted
    => /\ ui.memo.dayItems = ui.data.items
       /\ \A key \in NutrientKeys :
              ui.memo.totals[key] = C14_FieldSum(ui.data.items, key)

\* Two stored items were deleted and a parsed egg item was added.
C14_AddedAndDeleted ==
    /\ ui.mounted
    /\ ui.data.items = <<DayItem(<<0, 2>>, P_meal), DayItem(<<1, 0>>, P_egg)>>
    /\ ui.memo.totals.calories = N(633)

C15_Matches(name, cfName) ==
    LET n == toLowerCase(trim(name))
        cn == toLowerCase(trim(cfName))
    IN  includes(n, cn) \/ includes(cn, n)

\* The first custom food in list order that matches the name, 0 when none.
C15_FirstMatch(name, foods) ==
    IF \E j \in 1..Len(foods) : C15_Matches(name, foods[j].name)
    THEN CHOOSE j \in 1..Len(foods) :
             /\ C15_Matches(name, foods[j].name)
             /\ \A h \in 1..(j - 1) : ~C15_Matches(name, foods[h].name)
    ELSE 0

C15_NoLookupFor(i) == \A c \in 1..Len(calls) : calls[c].item # i

\* C15 as stated: an item that matches a custom food resolves with tag
\* custom and each nutrient equal to the first matching food's stored value
\* times the item's quantity, without any lookup call for the item.
C15_CustomPathExact ==
    variant = "parse_js" =>
        \A i \in 1..Len(outItems) :
            LET m == C15_FirstMatch(parsedItems[i].name, req.customFoods)
            IN  m # 0 =>
                  /\ SourceTag(outItems[i]) = "custom"
                  /\ C15_NoLookupFor(i)
                  /\ \A key \in NutrientKeys :
                         outItems[i][key]
                             = RMul(req.customFoods[m][key], QuantityOf(parsedItems[i]))

\* C15 amended: as above, each nutrient being the stored value times the
\* quantity rounded to the field's precision (integer for calories, sodium,
\* potassium and magnesium, one decimal for the others).
C15_CustomPathRounded ==
    variant = "parse_js" =>
        \A i \in 1..Len(outItems) :
            LET m == C15_FirstMatch(parsedItems[i].name, req.customFoods)
            IN  m # 0 =>
                  /\ SourceTag(outItems[i]) = "custom"
                  /\ C15_NoLookupFor(i)
                  /\ \A key \in NutrientKeys :
                         outItems[i][key]
                             = C12_Rounded(key, req.customFoods[m][key],
                                           RMul(QuantityOf(parsedItems[i]), N(100)))

\* Two custom foods match the item LMNT x 2; the first in the list is used.
C15_FirstOfTwoUsed ==
    /\ variant = "parse_js"
    /\ pc = "done"
    /\ response.status = 200
    /\ Len(req.customFoods) = 4
    /\ Len(outItems) = 1
    /\ parsedItems[1].name = Q_lmnt
    /\ parsedItems[1].count = N(2)
    /\ outItems[1].tag = "custom"
    /\ outItems[1].calories = N(21)
    /\ calls = <<[kind |-> "openai", item |-> 0, arg |-> 0, res |-> "ok"]>>

C16_Versions == {"parse_js", "part_001"}

\* What parsed item i resolves to, given the answers its lookup calls got.
C16_Resolution(i) ==
    LET it == parsedItems[i]
        m == IF variant = "parse_js" THEN matchCustomFood(it.name, req.customFoods) ELSE 0
        details == {c \in 1..Len(calls) : calls[c].kind = "detail" /\ calls[c].item = i}
    IN  IF m # 0 THEN customItem_js(it, req.customFoods[m])
        ELSE IF details = {} THEN unmatched(variant, it)
        ELSE LET c == CHOOSE c \in details : TRUE
             IN  resolved(variant, it,
                          IF calls[c].res \in {"ok", "empty"} THEN UsdaFood(calls[c].arg)
                          ELSE NoFood)

\* C16: a successful batch returns one entry per parsed item, entry i being
\* the resolution of parsed item i, and items are resolved one after
\* another: calls are issued in item order, one at a time, and the calls of
\* an item start only when every earlier item is resolved.
C16_OrderPreserved ==
    variant \in C16_Versions =>
        /\ (pc = "done" /\ response.status = 200) =>
              /\ Len(response.items) = Len(parsedItems)
              /\ \A i \in 1..Len(parsedItems) : response.items[i] = C16_Resolution(i)
        /\ \A c \in 1..Len(calls) :
              /\ c < Len(calls) => calls[c].res # "pending"
              /\ c < Len(calls) => calls[c].item <= calls[c + 1].item
              /\ calls[c].kind # "openai" => Len(outItems) >= calls[c].item - 1
              /\ (calls[c].kind # "openai" /\ calls[c].res = "pending")
                    => Len(outItems) = calls[c].item - 1

\* A batch of a custom, a matched and an unmatched item, in that order.
C16_MixedBatch ==
    /\ variant = "parse_js"
    /\ pc = "done"
    /\ response.status = 200
    /\ Len(response.items) = 3
    /\ SourceTag(response.items[1]) = "custom"
    /\ SourceTag(response.items[2]) = "matched"
    /\ SourceTag(response.items[3]) = "unmatched"
    /\ parsedItems[2].name = Q_egg
    /\ response.items[2].name = Q_egg

C17_Versions == {"parse_js", "part_001"}

\* C17: with a required credential missing the request fails as a whole
\* before any processing: no outbound call is made and no item is resolved,
\* whatever the batch holds.
C17_MissingCredentialFailsFirst ==
    (variant \in C17_Versions /\ (~env.OPENAI_API_KEY \/ ~env.USDA_API_KEY))
    => /\ calls = <<>>
       /\ outItems = <<>>
       /\ pc = "done" => (response.status # 200 /\ "error" \in response.keys)

C18_Kinds == {ui.memo.warns[i].kind : i \in 1..Len(ui.memo.warns)}

\* C18: the protein advisory fires exactly when the day's protein total is
\* below 145 and the day has more than 2 items, whatever the net-carb
\* advisories do, and it reports the deficit 145 - protein.
C18_ProteinAdvisory ==
    ui.mounted
    => LET protein == C14_FieldSum(ui.data.items, "protein")
       IN  /\ "protein" \in C18_Kinds
                <=> (RLess(protein, N(145)) /\ Len(ui.data.items) > 2)
           /\ \A i \in 1..Len(ui.memo.warns) :
                  ui.memo.warns[i].kind = "protein"
                  => /\ ui.memo.warns[i].need = RSub(N(145), protein)
                     /\ \A j \in 1..Len(ui.memo.warns) :
                            ui.memo.warns[j].kind = "protein" => j = i

\* Totals {protein 100, carbs 50, fiber 5} with 3 items: a protein warning
\* with deficit 45 together with the net-carbs-excess warning.
C18_BothWarnings ==
    /\ ui.mounted
    /\ Len(ui.data.items) = 3
    /\ ui.memo.totals.protein = N(100)
    /\ ui.memo.totals.carbs = N(50)
    /\ ui.memo.totals.fiber = N(5)
    /\ ui.memo.warns = <<[kind |-> "protein", at |-> N(100), need |-> N(45)],
                         [kind |-> "above", at |-> N(45), need |-> Zero]>>

C19_NetCarbs ==
    LET d == RSub(C14_FieldSum(ui.data.items, "carbs"), C14_FieldSum(ui.data.items, "fiber"))
    IN  IF d.n > 0 THEN d ELSE Zero

\* C19: net carbs is max(0, carbs - fiber), never negative; the excess
\* advisory fires exactly when net carbs > 40 and the deficit advisory
\* exactly when 0 < net carbs < 30, and never both.
C19_NetCarbAdvisories ==
    ui.mounted
    => /\ ui.memo.netCarbs = C19_NetCarbs
       /\ ui.memo.netCarbs.n >= 0
       /\ "above" \in C18_Kinds <=> RLess(N(40), C19_NetCarbs)
       /\ "below" \in C18_Kinds <=> (RLess(Zero, C19_NetCarbs) /\ RLess(C19_NetCarbs, N(30)))
       /\ ~("above" \in C18_Kinds /\ "below" \in C18_Kinds)
       /\ ui.data.items = <<>> => C18_Kinds = {}

\* A day with carbs 20 and fiber 25: net carbs 0 and no net-carb advisory.
C19_FiberAboveCarbs ==
    /\ ui.mounted
    /\ ui.memo.totals.carbs = N(20)
    /\ ui.memo.totals.fiber = N(25)
    /\ ui.memo.netCarbs = Zero
    /\ C18_Kinds \cap {"above", "below"} = {}

\* C20: every item a batch returns, matched, custom or unmatched, has all
\* eight nutrient fields present, finite and non-negative.
C20_ProfileNonNegative ==
    (variant = "parse_js" /\ pc = "done" /\ response.status = 200)
    => \A i \in 1..Len(response.items) :
           \A key \in NutrientKeys :
               /\ key \in DOMAIN response.items[i]
               /\ IsNum(response.items[i][key])
               /\ response.items[i][key].n >= 0

C21_Versions == {"parse_js", "part_001", "part_002"}

\* The item's quantity/count and explicit mass are within the sane range.
C21_Sane(v, it) ==
    /\ searchText(v, it) # <<>>
    /\ IsNullish(it.grams)
         \/ (IsNum(it.grams) /\ RLeq(N(1), it.grams) /\ RLeq(it.grams, N(2000)))
    /\ IsNullish(it.count)
         \/ (IsNum(it.count) /\ RLess(Zero, it.count) /\ RLeq(it.count, N(50)))

\* C21: every parsed item handed to the resolver, on every path out of the
\* text-understanding step, has a non-empty query, an explicit mass that is
\* absent or within 1..2000 g and a quantity/count that is absent or a
\* finite positive number no greater than 50; no resolved item represents
\* more than 2000 g.
C21_ParsedItemsSane ==
    variant \in C21_Versions =>
    /\ \A i \in 1..Len(parsedItems) : C21_Sane(variant, parsedItems[i])
    /\ \A i \in 1..Len(outItems) :
           IsNum(outItems[i].grams) => RLeq(outItems[i].grams, N(2000))

\* The serving size of the record, when the serving-size step is reached for
\* the item: the Unit Converter gave no mass and the record states a size.
C22_ServingStep(it, food) ==
    /\ ~Truthy(unitToGrams(QuantityOf(it), it.unit))
    /\ IsNum(food.servingSize)
    /\ food.servingSize.n > 0

\* C22: the record's serving size is the mass basis only when its unit is a
\* mass unit: with a unit that is not a mass unit the serving size is
\* ignored and the item gets the last-resort mass, and a serving size in a
\* mass unit other than grams is not taken as that many grams.
C22_ServingSizeUnitChecked ==
    variant = "parse_js" =>
        \A c \in 1..Len(calls) :
            LET it == parsedItems[calls[c].item]
                food == UsdaFood(calls[c].arg)
                ssUnit == toLowerCase(trim(food.servingSizeUnit))
                grams == outItems[calls[c].item].grams
            IN  (DetailRead(c) /\ C22_ServingStep(it, food))
                => /\ ssUnit \notin MassUnitWords
                        => grams = RMul(QuantityOf(it), N(100))
                   /\ ssUnit \in MassUnitWords \ {W_g, W_gram, W_grams}
                        => grams # RMul(QuantityOf(it), food.servingSize)

\* The number is there but is not finite (Number(x) is NaN).
C23_NonFinite(x) == ~IsNullish(x) /\ ~IsNum(Number(x))

\* The mass part_001 resolves the item to.
C23_Mass(it) == gramsFor_001(sanitizeItem_001(it))

\* C23: a non-finite number in a parsed item is treated as absent: with a
\* non-finite explicit mass the item resolves to the mass it has with no
\* explicit mass, and with a non-finite count to the mass it has with the
\* default count 1.
C23_NonFiniteIsAbsent ==
    (fn.done /\ fn.f = "sanitize_001")
    => /\ C23_NonFinite(fn.item.grams)
            => fn.grams = C23_Mass([fn.item EXCEPT !.grams = Null])
       /\ C23_NonFinite(fn.item.count)
            => fn.grams = C23_Mass([fn.item EXCEPT !.count = One])

C24_Versions == {"parse_js", "part_001"}

\* The amount of the record's last entry for the nutrient, in kilocalories
\* for energy and in milligrams for the minerals; 0 without an entry.
RECURSIVE C24_Last(_, _, _)
C24_Last(list, i, key) ==
    IF i = 0 THEN Zero
    ELSE IF list[i].name = FDC[key].name /\ IsNum(Number(list[i].amount))
    THEN LET unit == lowerName(list[i].unitName)
             val == Number(list[i].amount)
         IN  IF key = "calories" /\ unit # "kcal" THEN RDiv(val, Num(4184, 1000))
             ELSE IF key \in {"sodium", "potassium", "magnesium"} /\ unit = "g"
             THEN RMul(val, N(1000))
             ELSE val
    ELSE C24_Last(list, i - 1, key)

C24_Rounded(v, key, x, grams) ==
    IF v = "parse_js" THEN C12_Rounded(key, x, grams)
    ELSE Num(RoundProd(x, RDiv(grams, N(100)), 10), 10)

\* C24: the per-100g profile of a detail record holds kilocalories and
\* milligrams whatever unit the record used: energy reported in another
\* unit is divided by 4.184, a mineral reported in grams is multiplied by
\* 1000; the resolved item is that profile scaled to the item's mass.
C24_UnitsNormalized ==
    variant \in C24_Versions =>
        \A c \in 1..Len(calls) :
            (calls[c].kind = "detail" /\ calls[c].res = "ok")
            => LET o == outItems[calls[c].item]
                   list == UsdaFood(calls[c].arg).foodNutrients
               IN  (IsNum(o.grams) /\ o.grams.n >= 0)
                   => \A key \in {"calories", "sodium", "potassium", "magnesium"} :
                          o[key] = C24_Rounded(variant, key,
                                               C24_Last(list, Len(list), key), o.grams)

C25_Versions == {"parse_js", "part_001"}

C25_Calls(kind, i) == {c \in 1..Len(calls) : calls[c].kind = kind /\ calls[c].item = i}

C25_IsCustom(i) ==
    variant = "parse_js" /\ matchCustomFood(parsedItems[i].name, req.customFoods) # 0

\* C25: within a batch every item that does not match a custom food causes
\* exactly one search call, also when an earlier item had the same search
\* text; an item has at most one detail call, which follows its search, is
\* for the id of the candidate selected from that search, and is never made
\* when the search returned no candidate.
C25_OneLookupPerItem ==
    variant \in C25_Versions =>
    /\ \A i \in 1..Len(outItems) :
           Cardinality(C25_Calls("search", i)) = IF C25_IsCustom(i) THEN 0 ELSE 1
    /\ \A i \in 1..Len(parsedItems) :
           /\ Cardinality(C25_Calls("search", i)) <= 1
           /\ Cardinality(C25_Calls("detail", i)) <= 1
    /\ \A c \in 1..Len(calls) :
           calls[c].kind = "detail"
           => /\ c > 1
              /\ calls[c - 1].kind = "search"
              /\ calls[c - 1].item = calls[c].item
              /\ calls[c - 1].res = "ok"
              /\ calls[c].arg
                   = chosen(variant,
                            UsdaHits(searchText(variant, parsedItems[calls[c].item])))

\* A batch answered with two resolved items of the same search text, each
\* with its own search call and its own detail call.
C25_RepeatedFoodSearchedTwice ==
    /\ variant \in C25_Versions
    /\ pc = "done"
    /\ response.status = 200
    /\ Len(parsedItems) >= 2
    /\ searchText(variant, parsedItems[1]) = searchText(variant, parsedItems[2])
    /\ \A i \in 1..2 :
           /\ Cardinality(C25_Calls("search", i)) = 1
           /\ Cardinality(C25_Calls("detail", i)) = 1

\* A parse request completes successfully in this step.
C26_Completes ==
    /\ ui.mounted
    /\ Len(ui'.flights) < Len(ui.flights)
    /\ ui'.status = "ok"

\* C26: an item deleted from the day's list never reappears: every item of
\* the list after a parse completes was in the list at completion time or
\* is one of the new items of that answer.
C26_DeletedStaysDeleted ==
    [][C26_Completes
       => \A j \in 1..Len(ui'.memo.dayItems) :
              \/ \E i \in 1..Len(ui.memo.dayItems) :
                     ui.memo.dayItems[i] = ui'.memo.dayItems[j]
              \/ ui'.memo.dayItems[j].id[1] = ui'.now]_vars

\* C27: at most one parse request is in flight at any time: nothing starts
\* a second request while the parsing flag is set, and the flag is true
\* exactly while a request is outstanding.
C27_OneRequestInFlight ==
    variant = "page" =>
    /\ Len(ui.flights) <= 1
    /\ ui.parsing <=> ui.flights # <<>>

\* C28: no successfully parsed item is lost: every item in the day's list
\* when a parse completes, the items of earlier answers among them, is in
\* the list after the completion.
C28_NoParsedItemLost ==
    [][C26_Completes
       => \A i \in 1..Len(ui.memo.dayItems) :
              \E j \in 1..Len(ui'.memo.dayItems) :
                  ui'.memo.dayItems[j] = ui.memo.dayItems[i]]_vars

\* C29: a parse request that fails leaves the day's items, the stored days
\* and the input text as they are and sets an error status; every
\* completion resets the parsing flag; only a successful answer, which
\* clears the input, makes the day's list longer.
C29_FailureChangesNothing ==
    [][/\ (ui.mounted /\ Len(ui'.flights) < Len(ui.flights))
          => /\ ~ui'.parsing
             /\ ui'.status \in {"ok", "err"}
             /\ ui'.status = "err"
                  => /\ ui'.data = ui.data
                     /\ ui'.memo.dayItems = ui.memo.dayItems
                     /\ ui'.stored = ui.stored
                     /\ ui'.input = ui.input
             /\ ui'.status = "ok" => ~ui'.input
       /\ (ui.mounted /\ Len(ui'.memo.dayItems) > Len(ui.memo.dayItems))
          => C26_Completes]_vars

\* A request has failed: the error status is shown, nothing is in flight,
\* the text is still in the text area and the day's items are as stored.
C29_FailedWithTextKept ==
    /\ ui.mounted
    /\ ui.status = "err"
    /\ ~ui.parsing
    /\ ui.flights = <<>>
    /\ ui.started > 0
    /\ ui.input
    /\ ui.memo.dayItems # <<>>
    /\ ui.stored = ui.memo.dayItems

\* C30: the Net Carbs metric is highlighted exactly when a net-carb advisory
\* is shown: when net carbs are above 40, or above 0 and below 30; it is not
\* highlighted on an empty day, with net carbs 0.
C30_HighlightIffAdvisory ==
    (variant = "page" /\ ui.mounted) =>
        (ui.memo.warnNetCarbs
            <=> \/ RLess(N(40), ui.memo.netCarbs)
                \/ (RLess(Zero, ui.memo.netCarbs) /\ RLess(ui.memo.netCarbs, N(30))))

=============================================================================
